---- MODULE Spec2Model ----
(***************************************************************************)
(* Model of the Allo Kapri catalog API (src/index.js) and of the second    *)
(* backend entry point (src/unnamed/part_000).                             *)
(*                                                                         *)
(* JavaScript values are modelled as follows.                              *)
(*   - a string is a sequence of one-character strings;                    *)
(*   - a number is a record [nan, m, e]: NaN when nan, else the decimal    *)
(*     m / 10^e, kept normalised (no trailing zero in the fraction);       *)
(*   - a loosely-typed value (a spreadsheet cell, a query parameter) is a  *)
(*     record [t, s, n] with t in "undef", "null", "str", "num".           *)
(* Random rating/reviews, colors, image and id of a product are response   *)
(* payload that no modelled decision reads; they are left out.             *)
(***************************************************************************)
EXTENDS Integers, Sequences, FiniteSets, TLC

VARIABLES xlsx, used, novo, featuredJson, req, res, arg, ret

vars == <<xlsx, used, novo, featuredJson, req, res, arg, ret>>

(***************************************************************************)
(* Bounds of the model.                                                    *)
(***************************************************************************)
MaxRows == 2
MaxStrLen == 3
MaxWords == 3

(***************************************************************************)
(* Characters and strings.                                                 *)
(***************************************************************************)
Lowers == <<"a","b","c","d","e","f","g","h","i","j","k","l","m",
            "n","o","p","q","r","s","t","u","v","w","x","y","z">>

Uppers == <<"A","B","C","D","E","F","G","H","I","J","K","L","M",
            "N","O","P","Q","R","S","T","U","V","W","X","Y","Z">>

Digits == <<"0","1","2","3","4","5","6","7","8","9">>

LetterIdx == 1..26

DigitOf == [c \in {Digits[i] : i \in 1..10} |->
              (CHOOSE i \in 1..10 : Digits[i] = c) - 1]

LowerOf == [c \in {Uppers[i] : i \in LetterIdx} |->
              Lowers[CHOOSE i \in LetterIdx : Uppers[i] = c]]

UpperOf == [c \in {Lowers[i] : i \in LetterIdx} |->
              Uppers[CHOOSE i \in LetterIdx : Lowers[i] = c]]

IsDigit(c) == c \in DOMAIN DigitOf

DigitVal(c) == DigitOf[c]

IsSpace(c) == c = " "

LowerChar(c) == IF c \in DOMAIN LowerOf THEN LowerOf[c] ELSE c

UpperChar(c) == IF c \in DOMAIN UpperOf THEN UpperOf[c] ELSE c

toLowerCase(s) == [i \in 1..Len(s) |-> LowerChar(s[i])]

toUpperCase(s) == [i \in 1..Len(s) |-> UpperChar(s[i])]

\* String.prototype.includes: sub occurs in s as a contiguous substring
includes(s, sub) ==
  \E i \in 0..(Len(s) - Len(sub)) : SubSeq(s, i + 1, i + Len(sub)) = sub

RECURSIVE TrimLeft(_)
TrimLeft(s) ==
  IF s # <<>> /\ IsSpace(Head(s)) THEN TrimLeft(Tail(s)) ELSE s

RECURSIVE TrimRight(_)
TrimRight(s) ==
  IF s # <<>> /\ IsSpace(s[Len(s)])
  THEN TrimRight(SubSeq(s, 1, Len(s) - 1))
  ELSE s

trim(s) == TrimRight(TrimLeft(s))

\* replace(/\s+/g, ' '): every run of whitespace becomes one space
RECURSIVE CollapseSpaces(_)
CollapseSpaces(s) ==
  IF s = <<>> THEN <<>>
  ELSE IF IsSpace(Head(s))
       THEN <<" ">> \o CollapseSpaces(TrimLeft(s))
       ELSE <<Head(s)>> \o CollapseSpaces(Tail(s))

\* String.prototype.replace with a string pattern: the FIRST occurrence only
RECURSIVE ReplaceFirst(_, _, _)
ReplaceFirst(s, c, by) ==
  IF s = <<>> THEN <<>>
  ELSE IF Head(s) = c THEN by \o Tail(s)
       ELSE <<Head(s)>> \o ReplaceFirst(Tail(s), c, by)

\* s.split(sep) for a one-character separator
RECURSIVE Split(_, _)
Split(s, sep) ==
  IF \A i \in 1..Len(s) : s[i] # sep THEN <<s>>
  ELSE LET i == CHOOSE j \in 1..Len(s) :
                  s[j] = sep /\ \A k \in 1..(j - 1) : s[k] # sep
       IN <<SubSeq(s, 1, i - 1)>> \o Split(SubSeq(s, i + 1, Len(s)), sep)

(***************************************************************************)
(* Numbers.                                                                *)
(***************************************************************************)
NaN == [nan |-> TRUE, m |-> 0, e |-> 0]

RECURSIVE Normalise(_, _)
Normalise(m, e) ==
  IF e > 0 /\ m % 10 = 0 THEN Normalise(m \div 10, e - 1)
  ELSE [nan |-> FALSE, m |-> m, e |-> e]

Int2Num(i) == [nan |-> FALSE, m |-> i, e |-> 0]

RECURSIVE Pow10(_)
Pow10(k) == IF k = 0 THEN 1 ELSE 10 * Pow10(k - 1)

\* a < b on numbers; false as soon as one side is NaN
NumLess(a, b) ==
  /\ ~a.nan
  /\ ~b.nan
  /\ a.m * Pow10(b.e) < b.m * Pow10(a.e)

IsInteger(n) == ~n.nan /\ n.e = 0

RECURSIVE DigitsValue(_)
DigitsValue(s) ==
  IF s = <<>> THEN 0
  ELSE 10 * DigitsValue(SubSeq(s, 1, Len(s) - 1)) + DigitVal(s[Len(s)])

RECURSIVE NatToString(_)
NatToString(k) ==
  IF k < 10 THEN <<Digits[k + 1]>>
  ELSE NatToString(k \div 10) \o <<Digits[(k % 10) + 1]>>

RECURSIVE PadLeft(_, _)
PadLeft(s, width) == IF Len(s) >= width THEN s ELSE PadLeft(<<"0">> \o s, width)

\* Number::toString for the decimals of the model (no exponent notation)
NumToString(n) ==
  IF n.nan THEN <<"N","a","N">>
  ELSE LET a == IF n.m < 0 THEN -n.m ELSE n.m
           sign == IF n.m < 0 THEN <<"-">> ELSE <<>>
       IN IF n.e = 0 THEN sign \o NatToString(a)
          ELSE sign \o NatToString(a \div Pow10(n.e)) \o <<".">>
                    \o PadLeft(NatToString(a % Pow10(n.e)), n.e)

\* StringToNumber for decimal literals: blank is 0; an optional sign, digits
\* with at most one '.', at least one digit; anything else is NaN.
StringToNumber(raw) ==
  LET s == trim(raw)
      signed == s # <<>> /\ Head(s) \in {"-", "+"}
      body == IF signed THEN Tail(s) ELSE s
      dots == {i \in 1..Len(body) : body[i] = "."}
      digs == SelectSeq(body, IsDigit)
  IN IF s = <<>> THEN Int2Num(0)
     ELSE IF \/ \E i \in 1..Len(body) : ~IsDigit(body[i]) /\ body[i] # "."
             \/ Cardinality(dots) > 1
             \/ digs = <<>>
          THEN NaN
          ELSE LET frac == IF dots = {} THEN 0
                           ELSE Len(body) - (CHOOSE i \in dots : TRUE)
                   mag == DigitsValue(digs)
               IN Normalise(IF signed /\ Head(s) = "-" THEN -mag ELSE mag, frac)

(***************************************************************************)
(* Loosely-typed values.                                                   *)
(***************************************************************************)
Undef == [t |-> "undef", s |-> <<>>, n |-> NaN]

Null == [t |-> "null", s |-> <<>>, n |-> NaN]

Str(s) == [t |-> "str", s |-> s, n |-> NaN]

Num(n) == [t |-> "num", s |-> <<>>, n |-> n]

\* ToBoolean
Truthy(v) ==
  \/ v.t = "str" /\ v.s # <<>>
  \/ v.t = "num" /\ ~v.n.nan /\ v.n.m # 0

\* a || b
Or(a, b) == IF Truthy(a) THEN a ELSE b

\* String(v)
String(v) ==
  CASE v.t = "str" -> v.s
    [] v.t = "num" -> NumToString(v.n)
    [] v.t = "null" -> <<"n","u","l","l">>
    [] OTHER -> <<"u","n","d","e","f","i","n","e","d">>

\* Number(v)
Number(v) ==
  CASE v.t = "str" -> StringToNumber(v.s)
    [] v.t = "num" -> v.n
    [] v.t = "null" -> Int2Num(0)
    [] OTHER -> NaN

(***************************************************************************)
(* Field normaliser.                                                       *)
(***************************************************************************)
\* replace(/^iphone/i, 'iPhone')
FixIphonePrefix(s) ==
  IF Len(s) >= 6 /\ toLowerCase(SubSeq(s, 1, 6)) = <<"i","p","h","o","n","e">>
  THEN <<"i","P","h","o","n","e">> \o SubSeq(s, 7, Len(s))
  ELSE s

normModel(m) ==
  IF ~Truthy(m) THEN <<>>
  ELSE FixIphonePrefix(CollapseSpaces(trim(String(m))))

IsNumberChar(c) == IsDigit(c) \/ c \in {".", ",", "-"}

\* parseLocalizedNumber as the specification words it: EVERY period removed
parseLocalizedNumber(v) ==
  IF v.t = "num" THEN v
  ELSE IF ~Truthy(v) THEN Null
  ELSE LET kept == SelectSeq(String(v), IsNumberChar)
           noDot == SelectSeq(kept, LAMBDA c : c # ".")
           n == StringToNumber(ReplaceFirst(noDot, ",", <<".">>))
       IN IF n.nan THEN Null ELSE Num(n)

safeNumber(v) ==
  IF v.t = "num" THEN v
  ELSE IF ~Truthy(v) THEN Null
  ELSE LET kept == SelectSeq(String(v), IsNumberChar)
           noDot == ReplaceFirst(kept, ".", <<>>)
           n == StringToNumber(ReplaceFirst(noDot, ",", <<".">>))
       IN IF n.nan THEN Null ELSE Num(n)

(***************************************************************************)
(* Row classifier.  A raw row is a record of cells.  Of the aliases the    *)
(* code reads, a row of the model carries model / modelo (catalog build),  *)
(* model / Model (featured scan), storage_gb, market, price and            *)
(* disponibilidade; the aliases a row does not carry read undefined.       *)
(***************************************************************************)
usado == <<"u","s","a","d","o">>

novoCond == <<"n","o","v","o">>

AO == <<"A","O">>

AOA == <<"A","O","A">>

USD == <<"U","S","D">>

normRow(r, cond, market) ==
  LET model == normModel(Or(r.model, r.modelo))
      storage == Number(Or(r.storage_gb, Undef))
      rawMkt == toUpperCase(String(Or(Or(r.market, Undef), Str(<<>>))))
      mkt == IF rawMkt # <<>> THEN rawMkt ELSE market
      price == safeNumber(Or(r.price, Undef))
      currency == IF mkt = AO THEN AOA ELSE USD
      disp == trim(String(Or(Or(r.disponibilidade, Undef), Str(<<>>))))
  IN [model |-> model, storage_gb |-> storage, market |-> mkt,
      condition |-> cond, price |-> price, currency |-> currency,
      disponibilidade |-> disp]

\* Retained with the filter left out: every row is kept
KeepAllRows(row) == TRUE

\* .filter(r => r.model && r.price)
Retained(row) == row.model # <<>> /\ Truthy(row.price)

ClassifySheet(sheet, cond, market) ==
  SelectSeq([i \in 1..Len(sheet) |-> normRow(sheet[i], cond, market)], Retained)

(***************************************************************************)
(* Product reconciler.                                                     *)
(***************************************************************************)
\* ProductType with the checks in the order ipad, mac, iphone
ProductTypeIpadFirst(model) ==
  LET m == toLowerCase(model)
  IN IF includes(m, <<"i","p","a","d">>) THEN "ipad"
     ELSE IF includes(m, <<"m","a","c">>) THEN "macbook"
     ELSE IF includes(m, <<"i","p","h","o","n","e">>) THEN "iphone"
     ELSE "acessorio"

ProductType(model) ==
  LET m == toLowerCase(model)
  IN IF includes(m, <<"i","p","h","o","n","e">>) THEN "iphone"
     ELSE IF includes(m, <<"m","a","c">>) THEN "macbook"
     ELSE IF includes(m, <<"i","p","a","d">>) THEN "ipad"
     ELSE "acessorio"

\* byModel: one record per distinct model, in first-seen order
RECURSIVE ensureProducts(_, _)
ensureProducts(rows, byModel) ==
  IF rows = <<>> THEN byModel
  ELSE LET row == Head(rows)
           has == \E i \in 1..Len(byModel) : byModel[i].model = row.model
       IN ensureProducts(Tail(rows),
            IF has THEN byModel
            ELSE Append(byModel, [model |-> row.model,
                                  type |-> ProductType(row.model)]))

(***************************************************************************)
(* Catalog builder.                                                        *)
(***************************************************************************)
VariantKey(r) ==
  r.model \o <<"|">> \o r.condition \o <<"|">>
          \o NumToString(r.storage_gb) \o <<"|">> \o r.market

\* variants[key] = {price, currency}: a later row overwrites in place
RECURSIVE addVars(_, _)
addVars(rows, variants) ==
  IF rows = <<>> THEN variants
  ELSE LET r == Head(rows)
           e == [key |-> VariantKey(r), price |-> r.price.n,
                 currency |-> r.currency]
           hit == {i \in 1..Len(variants) : variants[i].key = e.key}
       IN addVars(Tail(rows),
            IF hit = {} THEN Append(variants, e)
            ELSE [i \in 1..Len(variants) |->
                    IF i \in hit THEN e ELSE variants[i]])

\* KeyMatches without the comparison of the market
KeyMatchesAnyMarket(key, model, market) ==
  LET parts == Split(key, "|")
  IN parts[1] = model

\* const [m,c,gb,mkt] = k.split('|');  m === model && mkt === market
KeyMatches(key, model, market) ==
  LET parts == Split(key, "|")
  IN parts[1] = model /\ parts[4] = market

\* the Set of Number(gb) over the keys of one model, condition and market
StorSet(variants, model, cond, market) ==
  {StringToNumber(Split(variants[i].key, "|")[3]) :
     i \in {j \in 1..Len(variants) :
              /\ KeyMatches(variants[j].key, model, market)
              /\ Split(variants[j].key, "|")[2] = cond}}

\* Array.from(set).sort((a,b) => a-b).  With NaN in the set the comparator
\* answers NaN for some pairs and is not consistent: the order of the result
\* is implementation-defined, so every arrangement is an outcome.
SortOutcomes(S) ==
  LET arrangements ==
        {q \in [1..Cardinality(S) -> S] :
           \A i, j \in 1..Cardinality(S) : i # j => q[i] # q[j]}
  IN IF NaN \in S THEN arrangements
     ELSE {q \in arrangements :
             \A i \in 1..(Cardinality(S) - 1) : NumLess(q[i], q[i + 1])}

RECURSIVE ProductOutcomes(_, _, _)
ProductOutcomes(byModel, variants, market) ==
  IF byModel = <<>> THEN {<<>>}
  ELSE LET p == Head(byModel)
           su == StorSet(variants, p.model, usado, market)
           sn == StorSet(variants, p.model, novoCond, market)
           rest == ProductOutcomes(Tail(byModel), variants, market)
       IN IF su = {} /\ sn = {} THEN rest
          ELSE {<<[model |-> p.model, type |-> p.type,
                   storages |-> [usado |-> u, novo |-> n]]>> \o ps :
                  u \in SortOutcomes(su), n \in SortOutcomes(sn), ps \in rest}

\* the possible results {products, variants} of buildCatalog(wb, market)
buildCatalog(wbUsed, wbNovo, market) ==
  LET usedRows == ClassifySheet(wbUsed, usado, market)
      newRows == ClassifySheet(wbNovo, novoCond, market)
      byModel == ensureProducts(usedRows \o newRows, <<>>)
      variants == addVars(newRows, addVars(usedRows, <<>>))
  IN {[products |-> ps, variants |-> variants] :
        ps \in ProductOutcomes(byModel, variants, market)}

(***************************************************************************)
(* Featured selector.                                                      *)
(***************************************************************************)
MinCount == 1

MaxCount == 20

DefaultCount == 8

Luanda == <<"L","u","a","n","d","a">>

\* minPriceForModel scanning the used-condition entries only
minPriceUsedOnly(variants, model, market) ==
  LET idx == {i \in 1..Len(variants) :
                /\ KeyMatches(variants[i].key, model, market)
                /\ Split(variants[i].key, "|")[2] = usado}
  IN IF idx = {} THEN [min |-> Null, currency |-> AOA]
     ELSE LET best == CHOOSE i \in idx :
                        \A j \in idx : ~NumLess(variants[j].price, variants[i].price)
          IN [min |-> Num(variants[best].price),
              currency |-> variants[best].currency]

\* minPriceForModel: the first entry, in key order, that no entry undercuts
minPriceForModel(variants, model, market) ==
  LET idx == {i \in 1..Len(variants) :
                KeyMatches(variants[i].key, model, market)}
  IN IF idx = {} THEN [min |-> Null, currency |-> AOA]
     ELSE LET best == CHOOSE i \in idx :
                        /\ \A j \in idx : ~NumLess(variants[j].price, variants[i].price)
                        /\ \A j \in idx : j < i =>
                              NumLess(variants[i].price, variants[j].price)
          IN [min |-> Num(variants[best].price),
              currency |-> variants[best].currency]

\* the models of the raw rows whose disponibilidade contains the city
modelsAvailable(rows, city) ==
  {normModel(Or(Or(rows[i].model, rows[i].Model), Str(<<>>))) :
     i \in {j \in 1..Len(rows) :
              /\ normModel(Or(Or(rows[j].model, rows[j].Model), Str(<<>>))) # <<>>
              /\ includes(toLowerCase(String(
                   Or(Or(rows[j].disponibilidade, Undef), Str(<<>>)))), city)}}

featuredItems(products, variants, market, available) ==
  LET kept == SelectSeq(products, LAMBDA p : p.model \in available)
      priced == [i \in 1..Len(kept) |->
                   LET mp == minPriceForModel(variants, kept[i].model, market)
                   IN [model |-> kept[i].model, min_price |-> mp.min,
                       currency |-> mp.currency]]
  IN SelectSeq(priced, LAMBDA it : it.min_price.t = "num")

\* preferred.forEach(m => { if (mapByModel.has(m)) ordered.push(...) })
RECURSIVE pushPreferred(_, _)
pushPreferred(preferred, items) ==
  IF preferred = <<>> THEN <<>>
  ELSE LET hit == {i \in 1..Len(items) : items[i].model = Head(preferred)}
       IN (IF hit = {} THEN <<>> ELSE <<items[CHOOSE i \in hit : TRUE]>>)
          \o pushPreferred(Tail(preferred), items)

\* items.forEach(it => { if (!ordered.includes(it)) ordered.push(it) })
RECURSIVE pushRemaining(_, _)
pushRemaining(items, ordered) ==
  IF items = <<>> THEN ordered
  ELSE pushRemaining(Tail(items),
         IF \E i \in 1..Len(ordered) : ordered[i] = Head(items)
         THEN ordered ELSE Append(ordered, Head(items)))

orderItems(preferred, items) ==
  pushRemaining(items, pushPreferred(SelectSeq(preferred, LAMBDA m : m # <<>>), items))

\* Math.max(1, Math.min(20, Number(req.query.count) || 8))
clampCount(q) ==
  LET n == Number(q)
      c == IF n.nan \/ n.m = 0 THEN Int2Num(DefaultCount) ELSE n
      lo == IF NumLess(Int2Num(MaxCount), c) THEN Int2Num(MaxCount) ELSE c
  IN IF NumLess(lo, Int2Num(MinCount)) THEN Int2Num(MinCount) ELSE lo

\* ordered.slice(0, count), count >= 1: the integer part of count is the end
slice(ordered, count) ==
  LET end == count.m \div Pow10(count.e)
  IN SubSeq(ordered, 1, IF end < Len(ordered) THEN end ELSE Len(ordered))

(***************************************************************************)
(* The inputs of the model: sample rows, preferred lists and queries.      *)
(***************************************************************************)
iPhone13 == <<"i","P","h","o","n","e"," ","1","3">>

iPad == <<"i","P","a","d">>

Mac == <<"M","a","c">>

Row(model, Model, modelo, storage, market, price, disp) ==
  [model |-> model, Model |-> Model, modelo |-> modelo, storage_gb |-> storage,
   market |-> market, price |-> price, disponibilidade |-> disp]

SampleRows ==
  { \* " iphone  13", 128 GB, market "ao", price "4.500,50", Luanda
    Row(Str(<<" ","i","p","h","o","n","e"," "," ","1","3">>), Undef, Undef,
        Num(Int2Num(128)), Str(<<"a","o">>),
        Str(<<"4",".","5","0","0",",","5","0">>),
        Str(<<"L","u","a","n","d","a",","," ","B","e","n","g","u","e","l","a">>)),
    \* "iPhone 13", storage "64" as text, no market, price 600, Huambo
    Row(Str(iPhone13), Undef, Undef, Str(<<"6","4">>), Null,
        Num(Int2Num(600)), Str(<<"H","u","a","m","b","o">>)),
    \* the model under the alias modelo, no storage, no market, price 300
    Row(Undef, Undef, Str(iPad), Null, Null,
        Num(Int2Num(300)), Str(<<"l","u","a","n","d","a">>)),
    \* "iPad", 64 GB, US, price "1.299.000,50"
    Row(Str(iPad), Undef, Undef, Num(Int2Num(64)), Str(<<"U","S">>),
        Str(<<"1",".","2","9","9",".","0","0","0",",","5","0">>),
        Str(Luanda)),
    \* "iPad", 64 GB, US, price 200, LUANDA
    Row(Str(iPad), Undef, Undef, Num(Int2Num(64)), Str(<<"U","S">>),
        Num(Int2Num(200)), Str(<<"L","U","A","N","D","A">>)),
    \* no model column, the model under Model, price 100
    Row(Null, Str(iPhone13), Undef, Num(Int2Num(64)), Null,
        Num(Int2Num(100)), Str(Luanda)) }

SamplePreferred ==
  { <<>>, <<iPad, iPad>>, <<iPad, iPhone13>>, <<Mac, iPhone13>> }

QueryMarkets == { Undef, Str(<<"u","s">>) }

QueryCities == { Undef, Str(<<"H","u","a","m","b","o">>) }

QueryCounts ==
  { Undef, Str(<<"0">>), Str(<<"-","1">>), Str(<<"2","5">>) }

(***************************************************************************)
(* The servers.                                                            *)
(***************************************************************************)
NoReq == [path |-> "none", market |-> Undef, city |-> Undef, count |-> Undef]

NoRes ==
  [server |-> "none", status |-> 0, error |-> "", market |-> <<>>,
   count |-> NaN, products |-> <<>>, variants |-> <<>>, items |-> <<>>,
   data |-> <<>>]

Init ==
  /\ xlsx = TRUE
  /\ used = <<>>
  /\ novo = <<>>
  /\ featuredJson = <<>>
  /\ req = NoReq
  /\ res = NoRes
  /\ arg = Undef
  /\ ret = Undef

\* the environment: the files the servers read
AppendUsedRow ==
  /\ res = NoRes
  /\ xlsx
  /\ Len(used) + Len(novo) < MaxRows
  /\ \E r \in SampleRows : used' = Append(used, r)
  /\ UNCHANGED <<xlsx, novo, featuredJson, req, res, arg, ret>>

AppendNewRow ==
  /\ res = NoRes
  /\ xlsx
  /\ Len(used) + Len(novo) < MaxRows
  /\ \E r \in SampleRows : novo' = Append(novo, r)
  /\ UNCHANGED <<xlsx, used, featuredJson, req, res, arg, ret>>

RemoveWorkbook ==
  /\ res = NoRes
  /\ xlsx
  /\ xlsx' = FALSE
  /\ used' = <<>>
  /\ novo' = <<>>
  /\ UNCHANGED <<featuredJson, req, res, arg, ret>>

CreateWorkbook ==
  /\ res = NoRes
  /\ ~xlsx
  /\ xlsx' = TRUE
  /\ UNCHANGED <<used, novo, featuredJson, req, res, arg, ret>>

WriteFeaturedJson ==
  /\ res = NoRes
  /\ \E p \in SamplePreferred : featuredJson' = p
  /\ featuredJson' # featuredJson
  /\ UNCHANGED <<xlsx, used, novo, req, res, arg, ret>>

reqMarket(q) == toUpperCase(String(Or(q, Str(AO))))

reqCity(q) == toLowerCase(String(Or(q, Str(Luanda))))

\* src/index.js: app.get('/api/catalog')
GetCatalog ==
  /\ res = NoRes
  /\ \E qm \in QueryMarkets :
       /\ \E qc \in QueryCities :
            req' = [path |-> "/api/catalog", market |-> qm, city |-> qc,
                    count |-> Undef]
       /\ IF ~xlsx
          THEN res' = [NoRes EXCEPT !.server = "index", !.status = 500,
                                    !.error = "XLSX not found"]
          ELSE \E catalog \in buildCatalog(used, novo, reqMarket(qm)) :
                 res' = [NoRes EXCEPT !.server = "index", !.status = 200,
                                      !.market = reqMarket(qm),
                                      !.products = catalog.products,
                                      !.variants = catalog.variants]
  /\ UNCHANGED <<xlsx, used, novo, featuredJson, arg, ret>>

\* src/index.js: app.get('/api/featured')
GetFeatured ==
  /\ res = NoRes
  /\ \E qm \in QueryMarkets :
       IF ~xlsx
       THEN \E qc \in QueryCities, qn \in QueryCounts :
              /\ req' = [path |-> "/api/featured", market |-> qm, city |-> qc,
                         count |-> qn]
              /\ res' = [NoRes EXCEPT !.server = "index", !.status = 500,
                                      !.error = "XLSX not found"]
       ELSE \E catalog \in buildCatalog(used, novo, reqMarket(qm)) :
              \E qc \in QueryCities :
                LET available == modelsAvailable(used \o novo, reqCity(qc))
                    items == featuredItems(catalog.products, catalog.variants,
                                           reqMarket(qm), available)
                    ordered == orderItems(featuredJson, items)
                IN \E qn \in QueryCounts :
                     LET count == clampCount(qn)
                     IN /\ req' = [path |-> "/api/featured", market |-> qm,
                                   city |-> qc, count |-> qn]
                        /\ res' = [NoRes EXCEPT !.server = "index", !.status = 200,
                                                !.market = reqMarket(qm),
                                                !.count = count,
                                                !.products = catalog.products,
                                                !.variants = catalog.variants,
                                                !.items = slice(ordered, count)]
  /\ UNCHANGED <<xlsx, used, novo, featuredJson, arg, ret>>

\* src/unnamed/part_000: loadCatalog, the rows of the first sheet or []
loadCatalog == IF ~xlsx THEN <<>> ELSE used

\* src/unnamed/part_000: app.get('/api/catalog')
BackendGetCatalog ==
  /\ res = NoRes
  /\ req' = [NoReq EXCEPT !.path = "/api/catalog"]
  /\ res' = [NoRes EXCEPT !.server = "backend", !.status = 200,
                          !.data = loadCatalog]
  /\ UNCHANGED <<xlsx, used, novo, featuredJson, arg, ret>>

\* the response is delivered and the handler returns
SendResponse ==
  /\ res # NoRes
  /\ req' = NoReq
  /\ res' = NoRes
  /\ UNCHANGED <<xlsx, used, novo, featuredJson, arg, ret>>

Next ==
  \/ AppendUsedRow
  \/ AppendNewRow
  \/ RemoveWorkbook
  \/ CreateWorkbook
  \/ WriteFeaturedJson
  \/ GetCatalog
  \/ GetFeatured
  \/ BackendGetCatalog
  \/ SendResponse

Spec == Init /\ [][Next]_vars

(***************************************************************************)
(* safeNumber on its own: one call on one input.                           *)
(***************************************************************************)
NumberAlphabet == {"1", "5", ".", ",", "-", "x"}

NumberInputs ==
  {Str(s) : s \in UNION {[1..n -> NumberAlphabet] : n \in 0..MaxStrLen}}
  \cup {Str(<<"1",".","2","9","9",",","5","0">>),
        Str(<<"1",".","2","9","9",".","0","0","0",",","5","0">>),
        Num(Int2Num(42)), Null, Undef}

InitNumber ==
  /\ xlsx = TRUE
  /\ used = <<>>
  /\ novo = <<>>
  /\ featuredJson = <<>>
  /\ req = NoReq
  /\ res = NoRes
  /\ arg \in NumberInputs
  /\ ret = Undef

CallSafeNumber ==
  /\ req.path = "none"
  /\ req' = [NoReq EXCEPT !.path = "safeNumber"]
  /\ ret' = safeNumber(arg)
  /\ UNCHANGED <<xlsx, used, novo, featuredJson, res, arg>>

NextNumber == CallSafeNumber

SpecNumber == InitNumber /\ [][NextNumber]_vars

(***************************************************************************)
(* The type of a product on its own: ensureProduct on one model.           *)
(***************************************************************************)
Words ==
  { <<"i","P","h","o","n","e">>, <<"I","P","A","D">>, <<"m","a","c">>,
    <<"W","a","t","c","h">>, <<" ","1","3">> }

RECURSIVE Concat(_)
Concat(ws) == IF ws = <<>> THEN <<>> ELSE Head(ws) \o Concat(Tail(ws))

TypeInputs ==
  {Str(Concat(ws)) : ws \in UNION {[1..n -> Words] : n \in 1..MaxWords}}

InitType ==
  /\ xlsx = TRUE
  /\ used = <<>>
  /\ novo = <<>>
  /\ featuredJson = <<>>
  /\ req = NoReq
  /\ res = NoRes
  /\ arg \in TypeInputs
  /\ ret = ""

\* ensureProduct on a retained row of model normModel(arg)
CallEnsureProduct ==
  /\ req.path = "none"
  /\ normModel(arg) # <<>>
  /\ req' = [NoReq EXCEPT !.path = "ensureProduct"]
  /\ ret' = ensureProducts(<<[model |-> normModel(arg)]>>, <<>>)[1].type
  /\ UNCHANGED <<xlsx, used, novo, featuredJson, res, arg>>

NextType == CallEnsureProduct

SpecType == InitType /\ [][NextType]_vars

(***************************************************************************)
(* Properties.  A response is pending exactly while res # NoRes, and the   *)
(* files do not change while it is: the sheets, the preferred list and the *)
(* request of a pending response are the ones it was computed from.        *)
(***************************************************************************)
CatalogOk == res.server = "index" /\ res.status = 200

FeaturedOk == CatalogOk /\ req.path = "/api/featured"

\* a raw row whose model resolves to empty, or whose price is empty or does
\* not parse
BadRow(r) ==
  \/ normModel(Or(r.model, r.modelo)) = <<>>
  \/ ~Truthy(r.price)
  \/ safeNumber(r.price) = Null

\* the classified rows of the sheets that are not bad
GoodRows(market) ==
  {normRow(used[i], usado, market) : i \in {j \in 1..Len(used) : ~BadRow(used[j])}}
  \cup
  {normRow(novo[i], novoCond, market) : i \in {j \in 1..Len(novo) : ~BadRow(novo[j])}}

\* the variant-index entries of a model in the requested market, given the
\* classified good rows
EntriesOf(good, model) ==
  LET keys == {VariantKey(g) : g \in {h \in good :
                                        h.model = model /\ h.market = res.market}}
  IN {i \in 1..Len(res.variants) : res.variants[i].key \in keys}

AllSheetRows == {used[i] : i \in 1..Len(used)} \cup {novo[i] : i \in 1..Len(novo)}

\* C1: a catalog build over any sheets succeeds, and every entry of variants
\* and every value of a product's storages comes from a row that has a model
\* and a parsable, non-empty price: bad rows contribute nothing.
C1_BadRowsExcluded ==
  (res.server = "index" /\ xlsx) =>
    LET good == GoodRows(res.market)
        priced == {<<VariantKey(g), g.price.n>> : g \in good}
        stored == {<<g.model, g.condition, g.storage_gb>> :
                     g \in {h \in good : h.market = res.market}}
    IN /\ res.status = 200
       /\ \A i \in 1..Len(res.variants) :
            <<res.variants[i].key, res.variants[i].price>> \in priced
       /\ \A i \in 1..Len(res.products) :
            LET p == res.products[i]
            IN /\ \A k \in 1..Len(p.storages.usado) :
                    <<p.model, usado, p.storages.usado[k]>> \in stored
               /\ \A k \in 1..Len(p.storages.novo) :
                    <<p.model, novoCond, p.storages.novo[k]>> \in stored

\* C1 witness: a successful build over sheets that hold a bad row and a good one
C1_Witness ==
  /\ CatalogOk
  /\ \E r \in AllSheetRows : BadRow(r)
  /\ res.variants # <<>>

C3_StoragesAscendingIntegers ==
  CatalogOk =>
    \A i \in 1..Len(res.products) :
      \A st \in {res.products[i].storages.usado, res.products[i].storages.novo} :
        /\ \A k \in 1..Len(st) : IsInteger(st[k])
        /\ \A k \in 1..(Len(st) - 1) : NumLess(st[k], st[k + 1])

PreferredIdx(model) ==
  CHOOSE k \in 1..Len(featuredJson) :
    featuredJson[k] = model /\ \A l \in 1..(k - 1) : featuredJson[l] # model

IsPreferred(model) == \E k \in 1..Len(featuredJson) : featuredJson[k] = model

ProductIdx(model) == CHOOSE k \in 1..Len(res.products) : res.products[k].model = model

\* C5: the featured items hold each product at most once, the preferred ones
\* first and in preference order, the others after them in catalog order.
C5_PreferredFirstNoDuplicates ==
  FeaturedOk =>
    \A i, j \in 1..Len(res.items) :
      i < j =>
        LET a == res.items[i].model
            b == res.items[j].model
        IN /\ a # b
           /\ IsPreferred(b) => (IsPreferred(a) /\ PreferredIdx(a) < PreferredIdx(b))
           /\ (~IsPreferred(a) /\ ~IsPreferred(b)) => ProductIdx(a) < ProductIdx(b)

\* the count the claim states: 8 when none is supplied, else the requested
\* value clamped to [1, 20]
ClaimedCount(q) ==
  LET n == Number(q)
  IN IF q.t = "undef" THEN Int2Num(DefaultCount)
     ELSE IF NumLess(n, Int2Num(MinCount)) THEN Int2Num(MinCount)
     ELSE IF NumLess(Int2Num(MaxCount), n) THEN Int2Num(MaxCount)
     ELSE n

\* C6: the count of a featured response is the requested count clamped to
\* [1, 20] (8 when none is supplied) and items is no longer than it.
C6_CountClamped ==
  FeaturedOk =>
    /\ res.count = ClaimedCount(req.count)
    /\ ~NumLess(res.count, Int2Num(Len(res.items)))

\* C7: with the spreadsheet missing, every catalog or featured request ends
\* in the source-unavailable error, never in a success.
C7_MissingSourceIsError ==
  (~xlsx /\ res # NoRes) => (res.status = 500 /\ res.error = "XLSX not found")

\* the availability set the claim states: the canonical models, as the row
\* classifier resolves them, of the rows whose availability contains the city
ClaimedAvailable(city) ==
  {normRow(r, usado, res.market).model :
     r \in {x \in AllSheetRows :
              /\ normRow(x, usado, res.market).model # <<>>
              /\ includes(toLowerCase(normRow(x, usado, res.market).disponibilidade),
                          city)}}

\* C8: a catalog product is among the featured items exactly when its model
\* is in the availability set (read where the count cuts nothing off).
C8_KeptIffAvailable ==
  (FeaturedOk /\ NumLess(Int2Num(Len(res.items)), res.count)) =>
    \A i \in 1..Len(res.products) :
      (res.products[i].model \in ClaimedAvailable(reqCity(req.city)))
        <=> (\E k \in 1..Len(res.items) : res.items[k].model = res.products[i].model)

HasWord(model, w) == includes(toLowerCase(model), w)

\* C9 as stated: ipad decides before mac, iphone only before the fallback.
C9_IpadBeforeMac ==
  req.path = "ensureProduct" =>
    LET m == normModel(arg)
        ipad == HasWord(m, <<"i","p","a","d">>)
        mac == HasWord(m, <<"m","a","c">>)
        iphone == HasWord(m, <<"i","p","h","o","n","e">>)
    IN /\ ipad => ret = "ipad"
       /\ (~ipad /\ mac) => ret = "macbook"
       /\ (~ipad /\ ~mac /\ iphone) => ret = "iphone"
       /\ (~ipad /\ ~mac /\ ~iphone) => ret = "acessorio"

\* C9 amended: iphone decides first, then mac, then ipad; a model with none
\* of the three is an acessorio.
C9_IphoneThenMacThenIpad ==
  req.path = "ensureProduct" =>
    LET m == normModel(arg)
        ipad == HasWord(m, <<"i","p","a","d">>)
        mac == HasWord(m, <<"m","a","c">>)
        iphone == HasWord(m, <<"i","p","h","o","n","e">>)
    IN /\ iphone => ret = "iphone"
       /\ (~iphone /\ mac) => ret = "macbook"
       /\ (~iphone /\ ~mac /\ ipad) => ret = "ipad"
       /\ (~iphone /\ ~mac /\ ~ipad) => ret = "acessorio"

\* C9 witness: a model holding both "ipad" and "mac" has been typed macbook
C9_Witness ==
  /\ req.path = "ensureProduct"
  /\ HasWord(normModel(arg), <<"i","p","a","d">>)
  /\ HasWord(normModel(arg), <<"m","a","c">>)
  /\ ret = "macbook"

\* C10: safeNumber returns what parseLocalizedNumber is specified to return:
\* every period removed, the first comma the decimal point.  Read on the
\* inputs that are numbers, empty, or strings holding a digit, where the
\* words of the claim fix the result.
C10_EveryPeriodRemoved ==
  (/\ req.path = "safeNumber"
   /\ arg.t = "str" => (arg.s = <<>> \/ \E i \in 1..Len(arg.s) : IsDigit(arg.s[i])))
    => ret = parseLocalizedNumber(arg)

====
